---- MODULE Spec2Model ----
(***************************************************************************)
(* Digital Financial Twin simulation engine                                *)
(* (ai-engine/app/services/digital_twin_service.py).                       *)
(*                                                                         *)
(* Money is a Python float in the service.  Here an amount is an integer   *)
(* number of mills (1/1000 of a currency unit), so that the half-cent      *)
(* fractions the multipliers produce (wants * 0.90, emi * 0.4, ...) are    *)
(* representable and round_currency is a real conversion.  A float         *)
(* product is modelled by FMul, which rounds to the nearest mill.          *)
(***************************************************************************)
EXTENDS Integers, Sequences, FiniteSets, TLC

\* ------------------------------------------------------------------------
\* Bounds of the model
\* ------------------------------------------------------------------------
MaxMonths == 13

MaxRuns == 3

\* ------------------------------------------------------------------------
\* Arithmetic helpers
\* ------------------------------------------------------------------------
\* One cent (CURRENCY_DECIMAL_PLACES = 2) in mills.
Cent == 10

Abs(x) == IF x < 0 THEN -x ELSE x

Max(a, b) == IF a >= b THEN a ELSE b

Min(a, b) == IF a <= b THEN a ELSE b

\* x * (n / d) as a float product: nearest mill, computed without leaving
\* the 32-bit range (x = q*d + r, so x*n/d = q*n + r*n/d).
FMulPos(x, n, d) == (x \div d) * n + (((x % d) * n + (d \div 2)) \div d)

FMul(x, n, d) == IF x >= 0 THEN FMulPos(x, n, d) ELSE -FMulPos(-x, n, d)

\* utils/math.py round_currency: Decimal quantize to 2 places, ROUND_HALF_UP
\* (halves go away from zero).
round_currency(amount) ==
    IF amount >= 0 THEN ((amount + 5) \div Cent) * Cent
    ELSE -((((-amount) + 5) \div Cent) * Cent)

\* ------------------------------------------------------------------------
\* Dates (datetime.date, dateutil.relativedelta)
\* ------------------------------------------------------------------------
IsLeap(y) == (y % 4 = 0 /\ y % 100 # 0) \/ (y % 400 = 0)

DaysInMonth(y, m) ==
    IF m = 2 THEN (IF IsLeap(y) THEN 29 ELSE 28)
    ELSE IF m \in {4, 6, 9, 11} THEN 30 ELSE 31

MkDate(y, m, d) == [y |-> y, m |-> m, d |-> d]

\* date <= date
DateLE(a, b) ==
    \/ a.y < b.y
    \/ a.y = b.y /\ a.m < b.m
    \/ a.y = b.y /\ a.m = b.m /\ a.d <= b.d

\* utils/date_utils.py add_months: relativedelta(months=n) moves the month
\* and clips the day to the last day of the target month.
add_months(ref_date, months) ==
    LET total == ref_date.y * 12 + (ref_date.m - 1) + months
        y2    == total \div 12
        m2    == (total % 12) + 1
    IN  MkDate(y2, m2, Min(ref_date.d, DaysInMonth(y2, m2)))

\* utils/date_utils.py get_year_month_string: strftime("%Y-%m") keeps the
\* year and the month and drops the day.
get_year_month_string(ref_date) == <<ref_date.y, ref_date.m>>

\* ------------------------------------------------------------------------
\* Constants of the service
\* ------------------------------------------------------------------------
ScenarioType ==
    {"baseline", "increased_savings", "aggressive_savings", "job_loss",
     "emi_prepayment"}

\* A mutant of the table: job loss keeps 10% of the income.
SCENARIO_MODIFIERS_job_income ==
    ("baseline" :>
        [wants_multiplier |-> 100, needs_multiplier |-> 100, income_multiplier |-> 100,
         description |-> "No changes to current behavior"])
    @@ ("increased_savings" :>
        [wants_multiplier |-> 90, needs_multiplier |-> 100, income_multiplier |-> 100,
         description |-> "10% reduction in discretionary spending"])
    @@ ("aggressive_savings" :>
        [wants_multiplier |-> 75, needs_multiplier |-> 95, income_multiplier |-> 100,
         description |-> "25% reduction in wants, 5% in needs"])
    @@ ("job_loss" :>
        [wants_multiplier |-> 30, needs_multiplier |-> 70, income_multiplier |-> 10,
         description |-> "Zero income, survival mode spending"])
    @@ ("emi_prepayment" :>
        [wants_multiplier |-> 85, needs_multiplier |-> 100, income_multiplier |-> 100,
         description |-> "Redirect savings to loan prepayment"])

\* A mutant of the table: the two savings scenarios swapped.
SCENARIO_MODIFIERS_swapped ==
    ("baseline" :>
        [wants_multiplier |-> 100, needs_multiplier |-> 100, income_multiplier |-> 100,
         description |-> "No changes to current behavior"])
    @@ ("increased_savings" :>
        [wants_multiplier |-> 75, needs_multiplier |-> 95, income_multiplier |-> 100,
         description |-> "10% reduction in discretionary spending"])
    @@ ("aggressive_savings" :>
        [wants_multiplier |-> 90, needs_multiplier |-> 100, income_multiplier |-> 100,
         description |-> "25% reduction in wants, 5% in needs"])
    @@ ("job_loss" :>
        [wants_multiplier |-> 30, needs_multiplier |-> 70, income_multiplier |-> 0,
         description |-> "Zero income, survival mode spending"])
    @@ ("emi_prepayment" :>
        [wants_multiplier |-> 85, needs_multiplier |-> 100, income_multiplier |-> 100,
         description |-> "Redirect savings to loan prepayment"])

\* A mutant of the table: the entry of emi_prepayment is missing.
SCENARIO_MODIFIERS_partial ==
    ("baseline" :>
        [wants_multiplier |-> 100, needs_multiplier |-> 100, income_multiplier |-> 100,
         description |-> "No changes to current behavior"])
    @@ ("increased_savings" :>
        [wants_multiplier |-> 90, needs_multiplier |-> 100, income_multiplier |-> 100,
         description |-> "10% reduction in discretionary spending"])
    @@ ("aggressive_savings" :>
        [wants_multiplier |-> 75, needs_multiplier |-> 95, income_multiplier |-> 100,
         description |-> "25% reduction in wants, 5% in needs"])
    @@ ("job_loss" :>
        [wants_multiplier |-> 30, needs_multiplier |-> 70, income_multiplier |-> 0,
         description |-> "Zero income, survival mode spending"])

\* A mutant: increased_savings spends a tenth more on wants instead of a
\* tenth less.
SCENARIO_MODIFIERS_spend_more ==
    ("baseline" :>
        [wants_multiplier |-> 100, needs_multiplier |-> 100, income_multiplier |-> 100,
         description |-> "No changes to current behavior"])
    @@ ("increased_savings" :>
        [wants_multiplier |-> 110, needs_multiplier |-> 100, income_multiplier |-> 100,
         description |-> "10% reduction in discretionary spending"])
    @@ ("aggressive_savings" :>
        [wants_multiplier |-> 75, needs_multiplier |-> 95, income_multiplier |-> 100,
         description |-> "25% reduction in wants, 5% in needs"])
    @@ ("job_loss" :>
        [wants_multiplier |-> 30, needs_multiplier |-> 70, income_multiplier |-> 0,
         description |-> "Zero income, survival mode spending"])
    @@ ("emi_prepayment" :>
        [wants_multiplier |-> 85, needs_multiplier |-> 100, income_multiplier |-> 100,
         description |-> "Redirect savings to loan prepayment"])

\* SCENARIO_MODIFIERS, the multipliers in hundredths (0.90 is 90).
SCENARIO_MODIFIERS ==
    ("baseline" :>
        [wants_multiplier |-> 100, needs_multiplier |-> 100, income_multiplier |-> 100,
         description |-> "No changes to current behavior"])
    @@ ("increased_savings" :>
        [wants_multiplier |-> 90, needs_multiplier |-> 100, income_multiplier |-> 100,
         description |-> "10% reduction in discretionary spending"])
    @@ ("aggressive_savings" :>
        [wants_multiplier |-> 75, needs_multiplier |-> 95, income_multiplier |-> 100,
         description |-> "25% reduction in wants, 5% in needs"])
    @@ ("job_loss" :>
        [wants_multiplier |-> 30, needs_multiplier |-> 70, income_multiplier |-> 0,
         description |-> "Zero income, survival mode spending"])
    @@ ("emi_prepayment" :>
        [wants_multiplier |-> 85, needs_multiplier |-> 100, income_multiplier |-> 100,
         description |-> "Redirect savings to loan prepayment"])

\* Rates are in basis points (0.08 is 800).
DEFAULT_ASSUMPTIONS ==
    [income_growth_rate |-> 800, inflation_rate |-> 600, savings_return_rate |-> 700]

\* get_scenario_descriptions
get_scenario_descriptions ==
    [s \in ScenarioType |-> SCENARIO_MODIFIERS[s].description]

\* GET /twin/scenarios
list_scenarios ==
    [scenarios |-> get_scenario_descriptions, default |-> "baseline"]

\* Optional[SimulationAssumptions]: None is the empty sequence, a supplied
\* object a is <<a>>.
None == << >>

\* ------------------------------------------------------------------------
\* Requests the model submits (TwinSimulateRequest after validation)
\* ------------------------------------------------------------------------
\* monthly_income > 0, needs >= 0, wants >= 0
CashFlows ==
    { [monthly_income |-> 100000000, needs |-> 35000000, wants |-> 20000000],
      [monthly_income |-> 30005,     needs |-> 10000,    wants |-> 5000],
      [monthly_income |-> 10000,     needs |-> 20000,    wants |-> 10050] }

SavingsValues == {1005, 50000}

DebtValues == {0, 30005}

AssetValues == {2000}

\* EMIInput: monthly_amount > 0, remaining_months > 0, interest_rate >= 0
EmiLists ==
    { << >>,
      << [name |-> "Short Loan", monthly_amount |-> 15000000,
          remaining_months |-> 6, interest_rate |-> 10] >>,
      << [name |-> "Phone", monthly_amount |-> 1010,
          remaining_months |-> 2, interest_rate |-> 0],
         [name |-> "Bike", monthly_amount |-> 2005,
          remaining_months |-> 3, interest_rate |-> 9] >> }

\* GoalInput: target > 0, current >= 0, 1 <= priority <= 10
GoalLists ==
    { << >>,
      << [name |-> "Trip", target |-> 20000, current |-> 0,
          deadline |-> MkDate(2026, 2, 28), priority |-> 1] >>,
      << [name |-> "Fund", target |-> 30000, current |-> 5000,
          deadline |-> MkDate(2026, 6, 15), priority |-> 2],
         [name |-> "Laptop", target |-> 10005, current |-> 0,
          deadline |-> MkDate(2026, 1, 31), priority |-> 2],
         [name |-> "Done", target |-> 5000, current |-> 5000,
          deadline |-> MkDate(2025, 12, 31), priority |-> 1],
         [name |-> "Car", target |-> 7880, current |-> 0,
          deadline |-> MkDate(2026, 12, 31), priority |-> 1] >> }

AssumptionValues ==
    { None,
      << [income_growth_rate |-> 5000, inflation_rate |-> 0, savings_return_rate |-> 0] >> }

\* What a client can send as the scenario of a request.
ScenarioIds == ScenarioType \cup {"recession"}

\* What date.today() can return while the model runs.
Clock == << MkDate(2026, 1, 31), MkDate(2026, 2, 1) >>

MkRequest(sv, db, as, cf, el, gl, au, pm) ==
    [ current_state |->
        [ savings |-> sv, debt |-> db, assets |-> as,
          monthly_income |-> cf.monthly_income,
          monthly_expenses |->
            [needs |-> cf.needs, wants |-> cf.wants, emis |-> 0, savings |-> 0] ],
      emis |-> el,
      goals |-> gl,
      projection_months |-> pm,
      assumptions |-> au ]

\* Everything of a request but its scenario.
Payloads ==
    { MkRequest(sv, db, as, cf, el, gl, au, pm) :
        sv \in SavingsValues, db \in DebtValues, as \in AssetValues,
        cf \in CashFlows, el \in EmiLists, gl \in GoalLists,
        au \in AssumptionValues, pm \in 1..MaxMonths }

\* ------------------------------------------------------------------------
\* FinancialTwinEngine
\* ------------------------------------------------------------------------
\* _prepare_emis
prepare_emis(emis) ==
    [i \in 1..Len(emis) |->
        [ name |-> emis[i].name,
          monthly_amount |-> emis[i].monthly_amount,
          remaining_months |-> emis[i].remaining_months,
          interest_rate |-> emis[i].interest_rate,
          active |-> TRUE ]]

\* _prepare_goals
prepare_goals(goals) ==
    [i \in 1..Len(goals) |->
        [ name |-> goals[i].name,
          target |-> goals[i].target,
          current |-> goals[i].current,
          deadline |-> goals[i].deadline,
          priority |-> goals[i].priority,
          achieved |-> goals[i].current >= goals[i].target ]]

\* A mutant: the caller's assumptions are ignored.
EffectiveAssumptions_ignored(assumptions) == DEFAULT_ASSUMPTIONS

\* simulate(): assumptions = request.assumptions or DEFAULT_ASSUMPTIONS
\* (a pydantic model object is always truthy).
EffectiveAssumptions(assumptions) ==
    IF assumptions = None THEN DEFAULT_ASSUMPTIONS ELSE assumptions[1]

\* A mutant: under emi_prepayment the savings are paid into the debt as a
\* lump sum when the engine is constructed.
NewEngine_prepays(current_state, emis, goals, assumptions, scenario) ==
    [ initial_state |-> current_state,
      emis |-> prepare_emis(emis),
      goals |-> prepare_goals(goals),
      assumptions |-> assumptions,
      scenario |-> scenario,
      modifiers |-> SCENARIO_MODIFIERS[scenario],
      current_savings |-> current_state.savings,
      current_debt |-> IF scenario = "emi_prepayment"
                       THEN Max(0, current_state.debt - current_state.savings)
                       ELSE current_state.debt,
      current_assets |-> current_state.assets,
      monthly_income |-> current_state.monthly_income,
      monthly_needs |-> current_state.monthly_expenses.needs,
      monthly_wants |-> current_state.monthly_expenses.wants,
      monthly_emis |-> current_state.monthly_expenses.emis,
      monthly_savings_target |-> current_state.monthly_expenses.savings,
      snapshots |-> << >>,
      goals_achieved |-> << >>,
      total_savings_added |-> 0,
      total_debt_reduced |-> 0 ]

\* FinancialTwinEngine.__init__
NewEngine(current_state, emis, goals, assumptions, scenario) ==
    [ initial_state |-> current_state,
      emis |-> prepare_emis(emis),
      goals |-> prepare_goals(goals),
      assumptions |-> assumptions,
      scenario |-> scenario,
      modifiers |-> SCENARIO_MODIFIERS[scenario],
      current_savings |-> current_state.savings,
      current_debt |-> current_state.debt,
      current_assets |-> current_state.assets,
      monthly_income |-> current_state.monthly_income,
      monthly_needs |-> current_state.monthly_expenses.needs,
      monthly_wants |-> current_state.monthly_expenses.wants,
      monthly_emis |-> current_state.monthly_expenses.emis,
      monthly_savings_target |-> current_state.monthly_expenses.savings,
      snapshots |-> << >>,
      goals_achieved |-> << >>,
      total_savings_added |-> 0,
      total_debt_reduced |-> 0 ]

\* A mutant: the term test is off by one, so an obligation pays one month
\* more than it has left.
EmiPays_off_by_one(emi) == emi.remaining_months >= 0

\* _simulate_month: if emi["active"] and emi["remaining_months"] > 0
EmiPays(emi) == emi.active /\ emi.remaining_months > 0

\* A mutant: an obligation that has run out stays active.
AdvanceEmi_stays_active(emi) ==
    IF EmiPays(emi)
    THEN [emi EXCEPT !.remaining_months = @ - 1]
    ELSE emi

\* _simulate_month, the body of the loop over self.emis for one obligation
AdvanceEmi(emi) ==
    IF EmiPays(emi)
    THEN [emi EXCEPT !.remaining_months = @ - 1,
                     !.active = ~((emi.remaining_months - 1) <= 0)]
    ELSE emi

RECURSIVE SumPaying(_, _)
\* _simulate_month: active_emi_total accumulated over self.emis[1..n]
SumPaying(emis, n) ==
    IF n = 0 THEN 0
    ELSE SumPaying(emis, n - 1)
         + (IF EmiPays(emis[n]) THEN emis[n].monthly_amount ELSE 0)

\* A mutant: the balance is not clamped.
NewSavings_unclamped(current_savings, savings_flow, savings_return) ==
    current_savings + savings_flow + savings_return

\* A mutant: the half of a positive flow that is offered to the goals is
\* taken out of the savings.
NewSavings_less_goals(current_savings, savings_flow, savings_return) ==
    Max(0, current_savings + savings_flow - Max(0, FMul(savings_flow, 50, 100))
             + savings_return)

\* _simulate_month: self.current_savings += savings_flow + savings_return;
\* self.current_savings = max(0, self.current_savings)
NewSavings(current_savings, savings_flow, savings_return) ==
    Max(0, current_savings + savings_flow + savings_return)

\* A mutant: a negative flow is added as well.
AddedSavings_all(total_savings_added, savings_flow) ==
    total_savings_added + savings_flow

\* _simulate_month: if savings_flow > 0: self.total_savings_added += savings_flow
AddedSavings(total_savings_added, savings_flow) ==
    IF savings_flow > 0 THEN total_savings_added + savings_flow
    ELSE total_savings_added

\* A mutant: the whole payment reduces the debt.
PrincipalPaid_full(active_emi_total) == active_emi_total

\* _simulate_month: principal_paid = active_emi_total * 0.4
PrincipalPaid(active_emi_total) == FMul(active_emi_total, 40, 100)

\* A mutant: interest accrues on the debt instead of principal being paid.
NewDebt_accrues(current_debt, principal_paid) ==
    Max(0, current_debt + principal_paid)

\* _simulate_month: self.current_debt = max(0, self.current_debt - principal_paid)
NewDebt(current_debt, principal_paid) == Max(0, current_debt - principal_paid)

\* A mutant: net worth leaves the assets out.
Networth_no_assets(current_savings, current_assets, current_debt) ==
    current_savings - current_debt

\* _simulate_month: networth = savings + assets - debt
Networth(current_savings, current_assets, current_debt) ==
    current_savings + current_assets - current_debt

\* ------------------------------------------------------------------------
\* Goal allocation (_update_goal_progress)
\* ------------------------------------------------------------------------
\* A mutant: the whole flow is available for the goals.
AvailableForGoals_all(savings_flow) == Max(0, savings_flow)

\* available_for_goals = max(0, savings_flow * 0.5)
AvailableForGoals(savings_flow) == Max(0, FMul(savings_flow, 50, 100))

RECURSIVE SortByPriority_unsorted(_, _)
\* A mutant: the goals are visited in input order.
SortByPriority_unsorted(goals, S) ==
    IF S = {} THEN << >>
    ELSE LET i == CHOOSE i \in S : \A j \in S : i <= j
         IN  <<i>> \o SortByPriority_unsorted(goals, S \ {i})

RECURSIVE SortByPriority(_, _)
\* active_goals.sort(key=priority): list.sort is stable, so equal
\* priorities keep the input order.  S is the set of indices left to place.
SortByPriority(goals, S) ==
    IF S = {} THEN << >>
    ELSE LET i == CHOOSE i \in S :
                    \A j \in S :
                        \/ goals[i].priority < goals[j].priority
                        \/ goals[i].priority = goals[j].priority /\ i <= j
         IN  <<i>> \o SortByPriority(goals, S \ {i})

\* active_goals = [g for g in self.goals if not g["achieved"]], sorted
ActiveGoals(goals) ==
    SortByPriority(goals, {i \in 1..Len(goals) : ~goals[i].achieved})

\* contribution = min(remaining, needed)
Contribution(remaining, needed) == Min(remaining, needed)

\* A mutant: a funded goal is debited instead of credited.
FundGoal_debit(goal, contribution) ==
    LET cur == goal.current - contribution
    IN  [goal EXCEPT !.current = cur,
                     !.achieved = IF cur >= goal.target /\ ~goal.achieved
                                  THEN TRUE ELSE goal.achieved]

\* A mutant: the flag is set only when current exceeds the target.
FundGoal_strict(goal, contribution) ==
    LET cur == goal.current + contribution
    IN  [goal EXCEPT !.current = cur,
                     !.achieved = IF cur > goal.target /\ ~goal.achieved
                                  THEN TRUE ELSE goal.achieved]

\* goal["current"] += contribution; the achieved flag is set when
\* current >= target and it was not set before
FundGoal(goal, contribution) ==
    LET cur == goal.current + contribution
    IN  [goal EXCEPT !.current = cur,
                     !.achieved = IF cur >= goal.target /\ ~goal.achieved
                                  THEN TRUE ELSE goal.achieved]

RECURSIVE Allocate(_, _, _, _, _)
\* The loop "for goal in active_goals": order[k..] is still to visit.
\* It breaks as soon as remaining <= 0.
Allocate(goals, goals_achieved, order, k, remaining) ==
    IF k > Len(order) \/ remaining <= 0
    THEN [goals |-> goals, goals_achieved |-> goals_achieved]
    ELSE LET i      == order[k]
             needed == goals[i].target - goals[i].current
             c      == Contribution(remaining, needed)
             g2     == FundGoal(goals[i], c)
             newly  == g2.achieved /\ ~goals[i].achieved
         IN  Allocate([goals EXCEPT ![i] = g2],
                      IF newly THEN Append(goals_achieved, g2.name)
                      ELSE goals_achieved,
                      order, k + 1, remaining - c)

\* round(min(100, current / target * 100), 2), in hundredths of a percent;
\* Python's round() sends a half to the even neighbour.
ProgressPercent(goal) ==
    IF goal.target <= 0 THEN 0
    ELSE IF goal.current >= goal.target THEN 10000
    ELSE LET num == goal.current * 10000
             q   == num \div goal.target
             r   == num % goal.target
         IN  Min(10000,
                 IF 2 * r > goal.target THEN q + 1
                 ELSE IF 2 * r = goal.target THEN q + (q % 2)
                 ELSE q)

\* One entry of the progress report
GoalStatus(goal, current_date) ==
    [ name |-> goal.name,
      target |-> goal.target,
      current |-> round_currency(goal.current),
      progress_percent |-> ProgressPercent(goal),
      remaining |-> round_currency(Max(0, goal.target - goal.current)),
      achieved |-> goal.achieved,
      on_track |-> goal.achieved \/ DateLE(current_date, goal.deadline) ]

\* _update_goal_progress: the goals and goals_achieved after the
\* allocation, and the progress report of all goals in input order
update_goal_progress(goals, goals_achieved, savings_flow, current_date) ==
    LET a == Allocate(goals, goals_achieved, ActiveGoals(goals), 1,
                      AvailableForGoals(savings_flow))
    IN  [ goals |-> a.goals,
          goals_achieved |-> a.goals_achieved,
          progress |-> [i \in 1..Len(goals) |-> GoalStatus(a.goals[i], current_date)] ]

\* ------------------------------------------------------------------------
\* One month (_simulate_month) and the annual step
\* ------------------------------------------------------------------------
\* income = self.monthly_income * self.modifiers["income_multiplier"]
MonthIncome(e) == FMul(e.monthly_income, e.modifiers.income_multiplier, 100)

\* needs = self.monthly_needs * self.modifiers["needs_multiplier"]
MonthNeeds(e) == FMul(e.monthly_needs, e.modifiers.needs_multiplier, 100)

\* wants = self.monthly_wants * self.modifiers["wants_multiplier"]
MonthWants(e) == FMul(e.monthly_wants, e.modifiers.wants_multiplier, 100)

\* savings_flow = income - total_expenses, before the obligations advance
MonthFlow(e) ==
    MonthIncome(e) - (MonthNeeds(e) + MonthWants(e) + SumPaying(e.emis, Len(e.emis)))

\* A mutant: the return is computed on the balance after the month's flow.
SavingsReturn_post_flow(e) ==
    FMul(e.current_savings + MonthFlow(e), e.assumptions.savings_return_rate, 120000)

\* monthly_return_rate = savings_return_rate / 12;
\* savings_return = self.current_savings * monthly_return_rate
SavingsReturn(e) ==
    FMul(e.current_savings, e.assumptions.savings_return_rate, 120000)

\* A mutant: the snapshots share one progress report, so emitting a
\* snapshot restamps the earlier ones with the new report.
EmitSnapshot_shared_report(snapshots, snapshot) ==
    Append([i \in 1..Len(snapshots) |->
               [snapshots[i] EXCEPT !.goal_progress = snapshot.goal_progress]],
           snapshot)

\* simulate(): self.snapshots.append(snapshot).  The snapshot holds
\* rounded numbers and a progress report of new dicts, nothing of the
\* engine's own state.
EmitSnapshot(snapshots, snapshot) == Append(snapshots, snapshot)

\* The engine after month month_num, with that month's snapshot appended
\* (simulate() appends what _simulate_month returns).
simulate_month(e, month_num, start_date) ==
    LET current_month == add_months(start_date, month_num - 1)
        month_str == get_year_month_string(current_month)
        income == MonthIncome(e)
        needs  == MonthNeeds(e)
        wants  == MonthWants(e)
        active_emi_total == SumPaying(e.emis, Len(e.emis))
        emis2 == [i \in 1..Len(e.emis) |-> AdvanceEmi(e.emis[i])]
        total_expenses == needs + wants + active_emi_total
        savings_flow == MonthFlow(e)
        savings_return == SavingsReturn(e)
        savings2 == NewSavings(e.current_savings, savings_flow, savings_return)
        principal_paid == PrincipalPaid(active_emi_total)
        debt2 == NewDebt(e.current_debt, principal_paid)
        networth == Networth(savings2, e.current_assets, debt2)
        gp == update_goal_progress(e.goals, e.goals_achieved, savings_flow,
                                   current_month)
        snapshot ==
            [ month |-> month_num,
              date |-> month_str,
              income |-> round_currency(income),
              expenses |->
                [ needs |-> round_currency(needs),
                  wants |-> round_currency(wants),
                  emis |-> round_currency(active_emi_total),
                  total |-> round_currency(total_expenses) ],
              savings_flow |-> round_currency(savings_flow),
              cumulative_savings |-> round_currency(savings2),
              debt_remaining |-> round_currency(debt2),
              networth |-> round_currency(networth),
              goal_progress |-> gp.progress ]
    IN  [e EXCEPT !.emis = emis2,
                  !.current_savings = savings2,
                  !.total_savings_added = AddedSavings(@, savings_flow),
                  !.current_debt = debt2,
                  !.total_debt_reduced = @ + principal_paid,
                  !.goals = gp.goals,
                  !.goals_achieved = gp.goals_achieved,
                  !.snapshots = EmitSnapshot(@, snapshot)]

\* _apply_annual_adjustments
apply_annual_adjustments(e) ==
    [e EXCEPT !.monthly_income =
                  FMul(@, 10000 + e.assumptions.income_growth_rate, 10000),
              !.monthly_needs =
                  FMul(@, 10000 + e.assumptions.inflation_rate, 10000),
              !.monthly_wants =
                  FMul(@, 10000 + e.assumptions.inflation_rate, 10000)]

\* A mutant: the adjustment is made a month early.
IsYearBoundary_early(month_num) == (month_num + 1) % 12 = 0

\* A mutant: the baselines are adjusted after every month.
IsYearBoundary_every(month_num) == month_num % 1 = 0

\* simulate(): if month_num % 12 == 0
IsYearBoundary(month_num) == month_num % 12 = 0

\* get_summary
get_summary(e) ==
    LET initial_networth ==
            e.initial_state.savings + e.initial_state.assets - e.initial_state.debt
        has == Len(e.snapshots) > 0
        final_snapshot == e.snapshots[Len(e.snapshots)]
        final_networth == IF has THEN final_snapshot.networth ELSE initial_networth
        final_savings ==
            IF has THEN final_snapshot.cumulative_savings ELSE e.initial_state.savings
        final_debt ==
            IF has THEN final_snapshot.debt_remaining ELSE e.initial_state.debt
        at_risk == SelectSeq(e.goals, LAMBDA g : ~g.achieved)
    IN  [ initial_networth |-> round_currency(initial_networth),
          final_networth |-> round_currency(final_networth),
          networth_change |-> round_currency(final_networth - initial_networth),
          total_savings_added |-> round_currency(e.total_savings_added),
          total_debt_reduced |-> round_currency(e.total_debt_reduced),
          final_savings |-> round_currency(final_savings),
          final_debt |-> round_currency(final_debt),
          goals_achieved |-> e.goals_achieved,
          goals_at_risk |->
            [i \in 1..Len(at_risk) |->
                [ name |-> at_risk[i].name,
                  target |-> at_risk[i].target,
                  projected |-> round_currency(at_risk[i].current),
                  shortfall |-> round_currency(at_risk[i].target - at_risk[i].current),
                  deadline |-> at_risk[i].deadline ]] ]

\* ------------------------------------------------------------------------
\* Request validation (the Field constraints of the request schema)
\* ------------------------------------------------------------------------
\* projection_months: le=120
MaxProjectionMonths == 120

\* MonthlyExpenses: every amount ge=0
ValidExpenses(x) ==
    x.needs >= 0 /\ x.wants >= 0 /\ x.emis >= 0 /\ x.savings >= 0

\* TwinCurrentState: savings, debt, assets ge=0; monthly_income gt=0
ValidCurrentState(cs) ==
    /\ cs.savings >= 0
    /\ cs.debt >= 0
    /\ cs.assets >= 0
    /\ cs.monthly_income > 0
    /\ ValidExpenses(cs.monthly_expenses)

\* A mutant: an obligation with no month left is accepted.
ValidEMI_lenient(emi) ==
    emi.monthly_amount > 0 /\ emi.remaining_months >= 0 /\ emi.interest_rate >= 0

\* EMIInput: monthly_amount gt=0, remaining_months gt=0, interest_rate ge=0
ValidEMI(emi) ==
    emi.monthly_amount > 0 /\ emi.remaining_months > 0 /\ emi.interest_rate >= 0

\* GoalInput: target gt=0, current ge=0, priority ge=1 le=10
ValidGoal(goal) ==
    goal.target > 0 /\ goal.current >= 0 /\ goal.priority >= 1 /\ goal.priority <= 10

\* SimulationAssumptions: growth in [0, 0.5], inflation and return in [0, 0.3]
ValidAssumptions(assumptions) ==
    IF assumptions = None THEN TRUE
    ELSE /\ assumptions[1].income_growth_rate >= 0
         /\ assumptions[1].income_growth_rate <= 5000
         /\ assumptions[1].inflation_rate >= 0
         /\ assumptions[1].inflation_rate <= 3000
         /\ assumptions[1].savings_return_rate >= 0
         /\ assumptions[1].savings_return_rate <= 3000

\* TwinSimulateRequest
ValidRequest(req) ==
    /\ ValidCurrentState(req.current_state)
    /\ \A i \in 1..Len(req.emis) : ValidEMI(req.emis[i])
    /\ \A i \in 1..Len(req.goals) : ValidGoal(req.goals[i])
    /\ req.projection_months >= 1
    /\ req.projection_months <= MaxProjectionMonths
    /\ req.scenario \in ScenarioType
    /\ ValidAssumptions(req.assumptions)

\* ------------------------------------------------------------------------
\* The service as a state machine
\* ------------------------------------------------------------------------
VARIABLES
    today,        \* index into Clock: what date.today() returns now
    payload,      \* the request body the client sends (all but the scenario)
    pc,           \* "idle", "running" (inside engine.simulate), "done",
                  \* "rejected" (answered with a validation error)
    request,      \* the request being served: payload and scenario
    engine,       \* the FinancialTwinEngine of the request being served
    start_date,   \* simulate(): start_date = date.today()
    month_num,    \* simulate(): the loop variable
    history,      \* the responses returned so far, oldest first
    comparison,   \* what POST /twin/compare returned, if it was called
    heap,         \* the lists that are held by reference: the caller's
                  \* inputs and each compared run's obligations and goals
    runs          \* the scenario runs of a comparison whose steps the
                  \* host interleaves: scenario -> its run

vars ==
    <<today, payload, pc, request, engine, start_date, month_num, history,
      comparison, heap, runs>>

NoComparison == << >>

NoHeap == << >>

NoRuns == << >>

NoEngine == << >>

NoRequest == << >>

\* The payloads of the runs that are repeated under several scenarios.
SessionPayloads ==
    { MkRequest(50000, 30005, 2000, cf, el, gl, au, pm) :
        cf \in { c \in CashFlows : c.monthly_income < 100000 },
        el \in { l \in EmiLists : Len(l) = 2 },
        gl \in { l \in GoalLists : Len(l) = 4 },
        au \in AssumptionValues,
        pm \in {2, MaxMonths} }

InitWith(P) ==
    /\ today = 1
    /\ payload \in P
    /\ pc = "idle"
    /\ request = NoRequest
    /\ engine = NoEngine
    /\ start_date = Clock[1]
    /\ month_num = 0
    /\ history = << >>
    /\ comparison = NoComparison
    /\ heap = NoHeap
    /\ runs = NoRuns

Init == InitWith(Payloads)

\* A mutant: the loop stops one month early.
LoopContinues_short(m, months) == m < months - 1

\* simulate(): for month_num in range(1, months + 1)
LoopContinues(m, months) == m < months

\* POST /twin/simulate with a body that passes validation, and
\* simulate(request) up to the first loop iteration: the assumptions are
\* defaulted, the engine is constructed and the clock is read.
Submit ==
    /\ pc = "idle"
    /\ \E scenario \in ScenarioIds :
        /\ ValidRequest(payload @@ [scenario |-> scenario])
        /\ request' = payload @@ [scenario |-> scenario]
        /\ engine' = NewEngine(payload.current_state, payload.emis, payload.goals,
                               EffectiveAssumptions(payload.assumptions), scenario)
    /\ start_date' = Clock[today]
    /\ month_num' = 0
    /\ pc' = "running"
    /\ UNCHANGED <<heap, runs, today, payload, history, comparison>>

\* One iteration of the loop of FinancialTwinEngine.simulate
SimulateMonth ==
    /\ pc = "running"
    /\ LoopContinues(month_num, request.projection_months)
    /\ month_num' = month_num + 1
    /\ LET e2 == simulate_month(engine, month_num + 1, start_date)
       IN  engine' = IF IsYearBoundary(month_num + 1)
                     THEN apply_annual_adjustments(e2) ELSE e2
    /\ UNCHANGED <<heap, runs, today, payload, pc, request, start_date, history, comparison>>

\* simulate(request) after the loop: the summary and the response
MkResponse(req, e) ==
    [ scenario |-> req.scenario,
      projection_months |-> req.projection_months,
      monthly_snapshots |-> e.snapshots,
      summary |-> get_summary(e) ]

Respond ==
    /\ pc = "running"
    /\ ~LoopContinues(month_num, request.projection_months)
    /\ history' = Append(history,
                         [request |-> request, response |-> MkResponse(request, engine)])
    /\ pc' = "done"
    /\ UNCHANGED <<heap, runs, today, payload, request, engine, start_date, month_num, comparison>>

\* The client sends the same payload again (under any scenario); the
\* engine of the previous request is gone.
NextRequest ==
    /\ pc = "done"
    /\ Len(history) < MaxRuns
    /\ pc' = "idle"
    /\ request' = NoRequest
    /\ engine' = NoEngine
    /\ month_num' = 0
    /\ UNCHANGED <<heap, runs, today, payload, start_date, history, comparison>>

\* Time passes.  The service reads the clock only when a simulation
\* starts, so it is enough to let it pass between requests.
Tick ==
    /\ pc = "idle"
    /\ today < Len(Clock)
    /\ today' = today + 1
    /\ UNCHANGED <<heap, runs, payload, pc, request, engine, start_date, month_num, history,
                   comparison>>

\* A request body that fails validation is answered with a validation
\* error before the handler is entered.
Reject ==
    /\ pc = "idle"
    /\ \E scenario \in ScenarioIds :
        /\ ~ValidRequest(payload @@ [scenario |-> scenario])
        /\ request' = payload @@ [scenario |-> scenario]
    /\ pc' = "rejected"
    /\ UNCHANGED <<heap, runs, today, payload, engine, start_date, month_num, history,
                   comparison>>

\* FinancialTwinEngine.simulate as a function: the months after month k
RECURSIVE RunMonths(_, _, _, _)
RunMonths(e, k, months, current_date) ==
    IF ~LoopContinues(k, months) THEN e
    ELSE LET e2 == simulate_month(e, k + 1, current_date)
         IN  RunMonths(IF IsYearBoundary(k + 1)
                       THEN apply_annual_adjustments(e2) ELSE e2,
                       k + 1, months, current_date)

\* simulate(request) as a function of the request and of the clock
simulate(req, current_date) ==
    MkResponse(req,
               RunMonths(NewEngine(req.current_state, req.emis, req.goals,
                                   EffectiveAssumptions(req.assumptions),
                                   req.scenario),
                         0, req.projection_months, current_date))

\* compare_scenarios: scenarios_to_compare
scenarios_to_compare == <<"baseline", "increased_savings", "aggressive_savings">>

\* compare_scenarios: the request of one run.  No assumptions are passed.
CompareRequest(current_state, emis, goals, projection_months, scenario) ==
    [ current_state |-> current_state,
      emis |-> emis,
      goals |-> goals,
      projection_months |-> projection_months,
      scenario |-> scenario,
      assumptions |-> None ]

\* compare_scenarios: the entry of one scenario
CompareEntry(response, scenario) ==
    [ final_networth |-> response.summary.final_networth,
      networth_change |-> response.summary.networth_change,
      goals_achieved |-> Len(response.summary.goals_achieved),
      goals_at_risk |-> Len(response.summary.goals_at_risk),
      total_savings |-> response.summary.total_savings_added,
      description |-> SCENARIO_MODIFIERS[scenario].description ]

\* A mutant: the scenario of lowest final net worth wins.
BestScenario_min(results, order) ==
    LET i == CHOOSE i \in 1..Len(order) :
                /\ \A j \in 1..Len(order) :
                      results[order[j]].final_networth
                          >= results[order[i]].final_networth
                /\ \A j \in 1..(i - 1) :
                      results[order[j]].final_networth
                          > results[order[i]].final_networth
    IN  order[i]

\* max(results.items(), key=final_networth): the first of the largest, in
\* the order in which the entries were inserted
BestScenario(results, order) ==
    LET i == CHOOSE i \in 1..Len(order) :
                /\ \A j \in 1..Len(order) :
                      results[order[j]].final_networth
                          <= results[order[i]].final_networth
                /\ \A j \in 1..(i - 1) :
                      results[order[j]].final_networth
                          < results[order[i]].final_networth
    IN  order[i]

\* compare_scenarios
compare_scenarios(current_state, emis, goals, projection_months, current_date) ==
    LET results ==
            [s \in {scenarios_to_compare[i] : i \in 1..Len(scenarios_to_compare)} |->
                CompareEntry(
                    simulate(CompareRequest(current_state, emis, goals,
                                            projection_months, s),
                             current_date),
                    s)]
        best_scenario == BestScenario(results, scenarios_to_compare)
    IN  [ scenarios |-> results,
          best_scenario |-> best_scenario,
          best_networth |-> results[best_scenario].final_networth ]

\* POST /twin/compare: the body is validated as a simulation request, and
\* the handler passes its current state, obligations, goals and horizon.
Compare ==
    /\ pc \in {"idle", "done"}
    /\ comparison = NoComparison
    /\ \E scenario \in ScenarioIds :
          ValidRequest(payload @@ [scenario |-> scenario])
    /\ comparison' = compare_scenarios(payload.current_state, payload.emis,
                                       payload.goals, payload.projection_months,
                                       Clock[today])
    /\ UNCHANGED <<heap, runs, today, payload, pc, request, engine, start_date, month_num,
                   history>>

\* ------------------------------------------------------------------------
\* compare_scenarios with its three runs as separate engines whose monthly
\* steps the host may interleave.  Lists are held by reference: heap maps
\* an address to the list that lives there.
\* ------------------------------------------------------------------------
ScenariosCompared ==
    { scenarios_to_compare[i] : i \in 1..Len(scenarios_to_compare) }

\* The arguments of compare_scenarios: the objects of the parsed request.
CallerState == <<"caller", "current_state">>

CallerEmis == <<"caller", "emis">>

CallerGoals == <<"caller", "goals">>

\* A mutant: every engine keeps its obligations in the list of the first
\* run instead of in a list of its own.
EmisAddr_shared(s) == <<scenarios_to_compare[1], "emis">>

\* _prepare_emis returns a new list of new dicts: the engine of run s has
\* its obligations at an address of its own.
EmisAddr(s) == <<s, "emis">>

\* _prepare_goals returns a new list of new dicts.
GoalsAddr(s) == <<s, "goals">>

\* The engine of run s with the lists it refers to read from the heap.
Deref(s) ==
    [runs[s].engine EXCEPT !.initial_state = heap[@],
                           !.emis = heap[@],
                           !.goals = heap[@]]

\* The engine as it is held: its lists by address.
Ref(e, s) ==
    [e EXCEPT !.initial_state = CallerState,
              !.emis = EmisAddr(s),
              !.goals = GoalsAddr(s)]

\* POST /twin/compare enters compare_scenarios with the request's current
\* state, obligations and goals; no run has started.
CompareCall ==
    /\ pc = "idle"
    /\ comparison = NoComparison
    /\ runs = NoRuns
    /\ \E scenario \in ScenarioIds :
          ValidRequest(payload @@ [scenario |-> scenario])
    /\ heap' = (CallerState :> payload.current_state)
                 @@ (CallerEmis :> payload.emis)
                 @@ (CallerGoals :> payload.goals)
    /\ runs' = [s \in ScenariosCompared |-> [pc |-> "new"]]
    /\ UNCHANGED <<today, payload, pc, request, engine, start_date, month_num,
                   history, comparison>>

\* The body of the loop of compare_scenarios for scenario s, up to the
\* first iteration of engine.simulate: the request is built from the
\* caller's objects as they are now, the engine is constructed with lists
\* of its own, and the clock is read.
RunBegin(s) ==
    /\ runs # NoRuns
    /\ runs[s].pc = "new"
    /\ LET req == CompareRequest(heap[CallerState], heap[CallerEmis],
                                 heap[CallerGoals], payload.projection_months, s)
           e == NewEngine(req.current_state, req.emis, req.goals,
                          EffectiveAssumptions(req.assumptions), req.scenario)
       IN  /\ heap' = (EmisAddr(s) :> e.emis) @@ (GoalsAddr(s) :> e.goals) @@ heap
           /\ runs' = [runs EXCEPT ![s] =
                          [ pc |-> "running",
                            request |-> req,
                            engine |-> Ref(e, s),
                            start_date |-> Clock[today],
                            month_num |-> 0 ]]
    /\ UNCHANGED <<today, payload, pc, request, engine, start_date, month_num,
                   history, comparison>>

\* One iteration of the loop of engine.simulate in run s: the month's
\* step writes the engine's fields and the dicts of its two lists.
RunStep(s) ==
    /\ runs # NoRuns
    /\ runs[s].pc = "running"
    /\ LoopContinues(runs[s].month_num, runs[s].request.projection_months)
    /\ LET k == runs[s].month_num + 1
           e2 == simulate_month(Deref(s), k, runs[s].start_date)
           e3 == IF IsYearBoundary(k) THEN apply_annual_adjustments(e2) ELSE e2
       IN  /\ heap' = [heap EXCEPT ![runs[s].engine.emis] = e3.emis,
                                   ![runs[s].engine.goals] = e3.goals]
           /\ runs' = [runs EXCEPT ![s].engine = Ref(e3, s),
                                   ![s].month_num = k]
    /\ UNCHANGED <<today, payload, pc, request, engine, start_date, month_num,
                   history, comparison>>

\* simulate(request) of run s after the loop: the summary and the response
RunEnd(s) ==
    /\ runs # NoRuns
    /\ runs[s].pc = "running"
    /\ ~LoopContinues(runs[s].month_num, runs[s].request.projection_months)
    /\ runs' = [runs EXCEPT ![s] =
                   [ pc |-> "done",
                     request |-> runs[s].request,
                     response |-> MkResponse(runs[s].request, Deref(s)) ]]
    /\ UNCHANGED <<today, payload, pc, request, engine, start_date, month_num,
                   history, comparison, heap>>

\* compare_scenarios after its loop: the entries, the best scenario and
\* the returned dictionary.
CompareReturn ==
    /\ runs # NoRuns
    /\ comparison = NoComparison
    /\ \A s \in ScenariosCompared : runs[s].pc = "done"
    /\ LET results == [s \in ScenariosCompared |->
                          CompareEntry(runs[s].response, s)]
           best_scenario == BestScenario(results, scenarios_to_compare)
       IN  comparison' = [ scenarios |-> results,
                           best_scenario |-> best_scenario,
                           best_networth |-> results[best_scenario].final_networth ]
    /\ UNCHANGED <<today, payload, pc, request, engine, start_date, month_num,
                   history, heap, runs>>

\* The longest horizon of an interleaved comparison.
MaxInterleavedMonths == 3

\* The payloads that are compared with interleaved runs.
InterleavePayloads ==
    { MkRequest(50000, 30005, 2000, cf, el, gl, None, pm) :
        cf \in CashFlows, el \in EmiLists, gl \in GoalLists,
        pm \in 1..MaxInterleavedMonths }

NextInterleave ==
    \/ CompareCall
    \/ \E s \in ScenariosCompared : RunBegin(s)
    \/ \E s \in ScenariosCompared : RunStep(s)
    \/ \E s \in ScenariosCompared : RunEnd(s)
    \/ CompareReturn

SpecInterleave == InitWith(InterleavePayloads) /\ [][NextInterleave]_vars

Next == Submit \/ SimulateMonth \/ Respond

Spec == Init /\ [][Next]_vars

\* The payloads that are both simulated and compared.
ComparePayloads ==
    { MkRequest(50000, 30005, 2000, cf, el, gl, au, pm) :
        cf \in CashFlows, el \in EmiLists, gl \in GoalLists,
        au \in AssumptionValues, pm \in 1..MaxMonths }

NextCompare == Submit \/ SimulateMonth \/ Respond \/ Compare

SpecCompare == InitWith(ComparePayloads) /\ [][NextCompare]_vars

\* Request bodies, valid and invalid: a valid body and the bodies that
\* differ from it in one field.
BaseRequest ==
    MkRequest(50000, 30005, 2000,
              [monthly_income |-> 30005, needs |-> 10000, wants |-> 5000],
              CHOOSE l \in EmiLists : Len(l) = 2,
              CHOOSE l \in GoalLists : Len(l) = 1,
              None, 2)

\* A horizon of more than two years.
LongRun == 25

RawPayloads ==
    { [BaseRequest EXCEPT !.projection_months = pm] :
        pm \in {-1, 0, 1, MaxProjectionMonths, MaxProjectionMonths + 1} }
    \cup { [BaseRequest EXCEPT !.projection_months = LongRun,
                               !.assumptions =
                                   << [income_growth_rate |-> 5000,
                                       inflation_rate |-> 3000,
                                       savings_return_rate |-> 0] >>] }
    \cup { [BaseRequest EXCEPT !.current_state.savings = v] : v \in {-10, 0} }
    \cup { [BaseRequest EXCEPT !.current_state.debt = v] : v \in {-10, 0} }
    \cup { [BaseRequest EXCEPT !.current_state.assets = v] : v \in {-10, 0} }
    \cup { [BaseRequest EXCEPT !.current_state.monthly_income = v] :
             v \in {-30005, 0, 10} }
    \cup { [BaseRequest EXCEPT !.current_state.monthly_expenses.needs = v] :
             v \in {-10, 0} }
    \cup { [BaseRequest EXCEPT !.current_state.monthly_expenses.wants = v] :
             v \in {-10, 0} }
    \cup { [BaseRequest EXCEPT !.current_state.monthly_expenses.emis = v] :
             v \in {-10, 3015} }
    \cup { [BaseRequest EXCEPT !.current_state.monthly_expenses.savings = v] :
             v \in {-10, 5000} }
    \cup { [BaseRequest EXCEPT !.emis[i].monthly_amount = v] :
             i \in 1..2, v \in {-1010, 0, 10} }
    \cup { [BaseRequest EXCEPT !.emis[i].remaining_months = v] :
             i \in 1..2, v \in {-1, 0, 1} }
    \cup { [BaseRequest EXCEPT !.emis[1].interest_rate = v] : v \in {-1, 0} }
    \cup { [BaseRequest EXCEPT !.goals[1].target = v] : v \in {-20000, 0, 10} }
    \cup { [BaseRequest EXCEPT !.goals[1].current = v] : v \in {-10, 30000} }
    \cup { [BaseRequest EXCEPT !.goals[1].priority = v] : v \in {0, 10, 11} }
    \cup { [BaseRequest EXCEPT !.assumptions =
                << [income_growth_rate |-> g, inflation_rate |-> i,
                    savings_return_rate |-> r] >>] :
             g \in {-1, 5000, 5001}, i \in {0, 3001}, r \in {-1, 3000} }

NextValidate == Submit \/ SimulateMonth \/ Respond \/ Reject

SpecValidate == InitWith(RawPayloads) /\ [][NextValidate]_vars

NextSession == Submit \/ SimulateMonth \/ Respond \/ NextRequest \/ Tick

SpecSession == InitWith(SessionPayloads) /\ [][NextSession]_vars

\* ------------------------------------------------------------------------
\* Properties
\* ------------------------------------------------------------------------
Serving == pc \in {"running", "done"}

Snapshots == IF Serving THEN engine.snapshots ELSE << >>

InitialState == request.current_state

\* C1 (as stated): in every snapshot networth equals cumulative_savings +
\* assets - debt_remaining, assets being the initial assets of the run.
C1_NetWorthIdentityExact ==
    \A i \in 1..Len(Snapshots) :
        Snapshots[i].networth =
            Snapshots[i].cumulative_savings + InitialState.assets
                - Snapshots[i].debt_remaining

\* C1 (amended): the net worth of the latest snapshot is round_currency of
\* (savings + initial assets - debt) taken on the unrounded balances, and in
\* every snapshot networth differs from cumulative_savings + assets -
\* debt_remaining, themselves rounded to the cent, by less than two cents.
C1_NetWorthIdentityRounded ==
    /\ \A i \in 1..Len(Snapshots) :
        Abs(Snapshots[i].networth
              - (Snapshots[i].cumulative_savings + InitialState.assets
                   - Snapshots[i].debt_remaining)) < 2 * Cent
    /\ Len(Snapshots) > 0 =>
        /\ engine.current_assets = InitialState.assets
        /\ Snapshots[Len(Snapshots)].networth =
              round_currency(engine.current_savings + InitialState.assets
                               - engine.current_debt)

\* A snapshot whose reported values miss the identity by a cent although
\* the assets are in whole cents.
C1_Witness ==
    \E i \in 1..Len(Snapshots) :
        /\ InitialState.assets % Cent = 0
        /\ Snapshots[i].debt_remaining > 0
        /\ Snapshots[i].cumulative_savings > 0
        /\ Snapshots[i].networth #
              Snapshots[i].cumulative_savings + InitialState.assets
                - Snapshots[i].debt_remaining

\* C2: cumulative_savings is >= 0 in every snapshot, and a month whose
\* shortfall exceeds the balance (balance + flow + return < 0) leaves the
\* savings at exactly 0.
C2_SavingsFloor ==
    /\ [](\A i \in 1..Len(Snapshots) : Snapshots[i].cumulative_savings >= 0)
    /\ [](Serving => engine.current_savings >= 0)
    /\ [][ (pc = "running" /\ month_num' = month_num + 1
              /\ engine.current_savings + MonthFlow(engine) + SavingsReturn(engine) < 0)
            => /\ engine'.current_savings = 0
               /\ engine'.snapshots[month_num'].cumulative_savings = 0 ]_vars

\* A month with a positive balance before it and a larger shortfall, after
\* which the snapshot reports savings of 0.
C2_Witness ==
    \E i \in 2..Len(Snapshots) :
        /\ Snapshots[i - 1].cumulative_savings > 0
        /\ Snapshots[i].savings_flow < 0
        /\ Snapshots[i].cumulative_savings = 0

\* C3 (as stated): debt_remaining never increases between consecutive
\* snapshots, the first snapshot's debt_remaining is <= the initial debt,
\* and debt_remaining is >= 0 in every snapshot.
C3_DebtMonotoneExact ==
    \A i \in 1..Len(Snapshots) :
        /\ Snapshots[i].debt_remaining >= 0
        /\ i > 1 => Snapshots[i].debt_remaining <= Snapshots[i - 1].debt_remaining
        /\ i = 1 => Snapshots[i].debt_remaining <= InitialState.debt

\* C3 (amended): debt_remaining never increases between consecutive
\* snapshots, the first snapshot's debt_remaining is <= the initial debt
\* rounded to the cent, and debt_remaining is >= 0 in every snapshot.
C3_DebtMonotoneRounded ==
    \A i \in 1..Len(Snapshots) :
        /\ Snapshots[i].debt_remaining >= 0
        /\ i > 1 => Snapshots[i].debt_remaining <= Snapshots[i - 1].debt_remaining
        /\ i = 1 => Snapshots[i].debt_remaining <= round_currency(InitialState.debt)

\* The debt falls in the first month, falls again in the second and is
\* still positive.
C3_Witness ==
    /\ Len(Snapshots) >= 2
    /\ Snapshots[1].debt_remaining < round_currency(InitialState.debt)
    /\ Snapshots[2].debt_remaining < Snapshots[1].debt_remaining
    /\ Snapshots[2].debt_remaining > 0

RECURSIVE SumDue(_, _, _)
\* The monthly amounts of the obligations emis[1..n] of the request whose
\* remaining_months is at least m.
SumDue(emis, n, m) ==
    IF n = 0 THEN 0
    ELSE SumDue(emis, n - 1, m)
         + (IF emis[n].remaining_months >= m THEN emis[n].monthly_amount ELSE 0)

\* C4 (as stated): an obligation with remaining_months = n contributes its
\* monthly_amount to expenses.emis in months 1..n and nothing afterwards:
\* in month m expenses.emis is the sum of the amounts of the obligations
\* with n >= m (A, then 0, for a single obligation of amount A).
C4_ObligationTerminationExact ==
    \A m \in 1..Len(Snapshots) :
        Snapshots[m].expenses.emis = SumDue(request.emis, Len(request.emis), m)

\* C4 (amended): in month m expenses.emis is the sum of the amounts of the
\* obligations with remaining_months >= m, rounded to the cent.
C4_ObligationTerminationRounded ==
    \A m \in 1..Len(Snapshots) :
        Snapshots[m].expenses.emis =
            round_currency(SumDue(request.emis, Len(request.emis), m))

\* A single obligation with n = 6 has paid in month 6 and pays nothing in
\* month 7.
C4_Witness ==
    /\ Serving
    /\ Len(request.emis) = 1
    /\ request.emis[1].remaining_months = 6
    /\ Len(Snapshots) >= 7
    /\ Snapshots[6].expenses.emis = request.emis[1].monthly_amount
    /\ Snapshots[7].expenses.emis = 0

\* C5: for every goal the current amount reported in goal_progress never
\* decreases from one snapshot to the next, and a goal reported achieved
\* is reported achieved in every later snapshot.
C5_GoalMonotone ==
    \A i \in 2..Len(Snapshots) :
        \A g \in 1..Len(Snapshots[i].goal_progress) :
            /\ Snapshots[i].goal_progress[g].current
                  >= Snapshots[i - 1].goal_progress[g].current
            /\ Snapshots[i - 1].goal_progress[g].achieved
                  => Snapshots[i].goal_progress[g].achieved

\* A goal that grows from one snapshot to the next, is achieved in that
\* next snapshot and is still achieved in the one after it.
C5_Witness ==
    \E i \in 2..(Len(Snapshots) - 1) :
        \E g \in 1..Len(Snapshots[i].goal_progress) :
            /\ ~Snapshots[i - 1].goal_progress[g].achieved
            /\ Snapshots[i - 1].goal_progress[g].current > 0
            /\ Snapshots[i].goal_progress[g].current
                  > Snapshots[i - 1].goal_progress[g].current
            /\ Snapshots[i].goal_progress[g].achieved
            /\ Snapshots[i + 1].goal_progress[g].achieved

\* Two requests that differ at most in their scenario.
SamePayload(r1, r2) ==
    [r1 EXCEPT !.scenario = "baseline"] = [r2 EXCEPT !.scenario = "baseline"]

\* C6: two runs with identical inputs (state, obligations, goals,
\* assumptions, scenario, horizon) return identical snapshot sequences,
\* whatever the clock says when each of them runs.
C6_Deterministic ==
    \A i, j \in 1..Len(history) :
        history[i].request = history[j].request
            => history[i].response.monthly_snapshots
                 = history[j].response.monthly_snapshots

TotalSavingsAdded(i) == history[i].response.summary.total_savings_added

\* C7: for identical inputs, total_savings_added under aggressive_savings
\* is >= that under increased_savings, which is >= that under baseline.
C7_ScenarioOrdering ==
    \A i, j \in 1..Len(history) :
        ( /\ SamePayload(history[i].request, history[j].request)
          /\ \/ /\ history[i].request.scenario = "aggressive_savings"
                /\ history[j].request.scenario \in {"increased_savings", "baseline"}
             \/ /\ history[i].request.scenario = "increased_savings"
                /\ history[j].request.scenario = "baseline" )
        => TotalSavingsAdded(i) >= TotalSavingsAdded(j)

\* The three scenarios have run on one payload and their totals differ.
C7_Witness ==
    \E i, j, k \in 1..Len(history) :
        /\ history[i].request.scenario = "aggressive_savings"
        /\ history[j].request.scenario = "increased_savings"
        /\ history[k].request.scenario = "baseline"
        /\ SamePayload(history[i].request, history[j].request)
        /\ SamePayload(history[j].request, history[k].request)
        /\ TotalSavingsAdded(i) > TotalSavingsAdded(j)
        /\ TotalSavingsAdded(j) > TotalSavingsAdded(k)
        /\ TotalSavingsAdded(k) > 0

LastResponse == history[Len(history)].response

\* C8: every simulation terminates (every step of a run is a loop
\* iteration that advances month_num by one, month_num never passes
\* projection_months, or it is the response), and its response holds exactly
\* projection_months snapshots whose month fields are 1, 2, ..., m in that
\* order, and echoes the requested scenario and projection_months.
C8_FullHorizon ==
    /\ [](pc = "done" =>
            /\ request.projection_months = payload.projection_months
            /\ Len(LastResponse.monthly_snapshots) = request.projection_months
            /\ \A i \in 1..Len(LastResponse.monthly_snapshots) :
                  LastResponse.monthly_snapshots[i].month = i
            /\ LastResponse.scenario = request.scenario
            /\ LastResponse.projection_months = request.projection_months)
    /\ [](Serving =>
            /\ month_num <= request.projection_months
            /\ Len(engine.snapshots) = month_num)
    /\ [][pc = "running" => (pc' = "done" \/ month_num' = month_num + 1)]_vars

\* A response to a request for more than a year.
C8_Witness ==
    /\ pc = "done"
    /\ request.projection_months >= 13
    /\ Len(LastResponse.monthly_snapshots) = request.projection_months

\* C9: under job_loss every snapshot has income = 0 and savings_flow <= 0.
C9_JobLoss ==
    (Serving /\ request.scenario = "job_loss") =>
        \A i \in 1..Len(Snapshots) :
            /\ Snapshots[i].income = 0
            /\ Snapshots[i].savings_flow <= 0

\* A job_loss run past the first annual income growth (default
\* assumptions, 8%), still with no income.
C9_Witness ==
    /\ Serving
    /\ request.scenario = "job_loss"
    /\ request.assumptions = None
    /\ Len(Snapshots) >= 13
    /\ engine.monthly_income > InitialState.monthly_income
    /\ Snapshots[13].income = 0
    /\ Snapshots[13].savings_flow < 0

\* The case of C10: baseline, no obligations, no goals, and assumptions
\* supplied by the caller with a savings return rate of zero.
BaselinePlain ==
    /\ Serving
    /\ request.scenario = "baseline"
    /\ request.emis = << >>
    /\ request.goals = << >>
    /\ request.assumptions # None
    /\ request.assumptions[1].savings_return_rate = 0

PlainFlow ==
    InitialState.monthly_income
        - InitialState.monthly_expenses.needs - InitialState.monthly_expenses.wants

\* C10 (as stated): in that case every month k of the first 12 has
\* savings_flow = monthly_income - needs - wants; when that flow is >= 0,
\* cumulative_savings after month k = initial savings + k * flow; and
\* debt_remaining equals the initial debt in every snapshot.
C10_BaselineAccumulationExact ==
    BaselinePlain =>
        \A k \in 1..Len(Snapshots) :
            /\ k <= 12 => Snapshots[k].savings_flow = PlainFlow
            /\ (k <= 12 /\ PlainFlow >= 0) =>
                  Snapshots[k].cumulative_savings = InitialState.savings + k * PlainFlow
            /\ Snapshots[k].debt_remaining = InitialState.debt

\* C10 (amended): in that case every month k of the first 12 reports a
\* savings_flow within a cent of monthly_income - needs - wants; when that
\* flow is >= 0, cumulative_savings after month k is within a cent of
\* initial savings + k * flow; and debt_remaining is the initial debt
\* rounded to the cent in every snapshot.  With whole-cent inputs the
\* three are equalities (initial + 540000 after month 12 for income
\* 100000, needs 35000, wants 20000).
C10_BaselineAccumulationRounded ==
    BaselinePlain =>
        \A k \in 1..Len(Snapshots) :
            /\ k <= 12 => Abs(Snapshots[k].savings_flow - PlainFlow) < Cent
            /\ (k <= 12 /\ PlainFlow >= 0) =>
                  Abs(Snapshots[k].cumulative_savings
                        - (InitialState.savings + k * PlainFlow)) < Cent
            /\ Snapshots[k].debt_remaining = round_currency(InitialState.debt)
            /\ ( /\ InitialState.monthly_income % Cent = 0
                 /\ InitialState.monthly_expenses.needs % Cent = 0
                 /\ InitialState.monthly_expenses.wants % Cent = 0
                 /\ k <= 12 )
               => /\ Snapshots[k].savings_flow = PlainFlow
                  /\ (PlainFlow >= 0 /\ InitialState.savings % Cent = 0) =>
                        Snapshots[k].cumulative_savings
                            = InitialState.savings + k * PlainFlow

\* The spec's scenario: income 100000, needs 35000, wants 20000, twelve
\* months, 45000 a month and 540000 added to the initial 50.00.
C10_Witness ==
    /\ BaselinePlain
    /\ InitialState.monthly_income = 100000000
    /\ InitialState.monthly_expenses.needs = 35000000
    /\ InitialState.monthly_expenses.wants = 20000000
    /\ InitialState.savings = 50000
    /\ InitialState.debt = 0
    /\ Len(Snapshots) >= 12
    /\ \A k \in 1..12 : Snapshots[k].savings_flow = 45000000
    /\ Snapshots[12].cumulative_savings = 50000 + 540000000
    /\ Snapshots[12].debt_remaining = 0

\* What compare_scenarios keeps of a summary.
SummaryEntry(summary) ==
    [ final_networth |-> summary.final_networth,
      networth_change |-> summary.networth_change,
      goals_achieved |-> Len(summary.goals_achieved),
      goals_at_risk |-> Len(summary.goals_at_risk),
      total_savings |-> summary.total_savings_added ]

ComparedEntry(entry) ==
    [ final_networth |-> entry.final_networth,
      networth_change |-> entry.networth_change,
      goals_achieved |-> entry.goals_achieved,
      goals_at_risk |-> entry.goals_at_risk,
      total_savings |-> entry.total_savings ]

\* C11 (as stated): the entry of each compared scenario equals the summary
\* that simulate returns for the same request body with that scenario:
\* final_networth, networth_change, the numbers of goals achieved and at
\* risk, and total_savings.
C11_ComparatorSameInputs ==
    comparison # NoComparison =>
        \A i \in 1..Len(history) :
            history[i].request.scenario \in DOMAIN comparison.scenarios =>
                ComparedEntry(comparison.scenarios[history[i].request.scenario])
                    = SummaryEntry(history[i].response.summary)

\* C12: a comparison holds exactly the three scenarios baseline,
\* increased_savings and aggressive_savings; best_scenario is one of them,
\* best_networth is that scenario's final_networth and is not below the
\* final_networth of any compared scenario.
C12_ComparatorWinner ==
    comparison # NoComparison =>
        /\ DOMAIN comparison.scenarios
              = {"baseline", "increased_savings", "aggressive_savings"}
        /\ comparison.best_scenario \in DOMAIN comparison.scenarios
        /\ comparison.best_networth
              = comparison.scenarios[comparison.best_scenario].final_networth
        /\ \A s \in DOMAIN comparison.scenarios :
              comparison.best_networth >= comparison.scenarios[s].final_networth

\* A comparison whose scenarios end with three different net worths.
C12_Witness ==
    /\ comparison # NoComparison
    /\ comparison.scenarios["baseline"].final_networth
          < comparison.scenarios["increased_savings"].final_networth
    /\ comparison.scenarios["increased_savings"].final_networth
          < comparison.scenarios["aggressive_savings"].final_networth
    /\ comparison.best_scenario = "aggressive_savings"

\* The monetary fields of a request.
MonetaryFields(req) ==
    { req.current_state.savings, req.current_state.debt,
      req.current_state.assets, req.current_state.monthly_income,
      req.current_state.monthly_expenses.needs,
      req.current_state.monthly_expenses.wants,
      req.current_state.monthly_expenses.emis,
      req.current_state.monthly_expenses.savings }
    \cup { req.emis[i].monthly_amount : i \in 1..Len(req.emis) }
    \cup { req.goals[i].target : i \in 1..Len(req.goals) }
    \cup { req.goals[i].current : i \in 1..Len(req.goals) }

\* The invalid requests: a horizon outside 1..120, a negative monetary
\* field, a non-positive monthly income, an obligation with a non-positive
\* amount or number of remaining months, an unknown scenario id.
InvalidInput(req) ==
    \/ req.projection_months < 1
    \/ req.projection_months > 120
    \/ \E v \in MonetaryFields(req) : v < 0
    \/ req.current_state.monthly_income <= 0
    \/ \E i \in 1..Len(req.emis) :
          req.emis[i].monthly_amount <= 0 \/ req.emis[i].remaining_months <= 0
    \/ req.scenario \notin
          {"baseline", "increased_savings", "aggressive_savings", "job_loss",
           "emi_prepayment"}

\* C13: an invalid request is answered with a validation error and nothing
\* is simulated for it: no engine is constructed, no snapshot and no
\* response is produced, under no other scenario and no other horizon.
C13_InvalidRejected ==
    /\ request # NoRequest /\ InvalidInput(request) =>
          /\ pc = "rejected"
          /\ engine = NoEngine
          /\ month_num = 0
    /\ pc = "rejected" => engine = NoEngine /\ history = << >>
    /\ \A i \in 1..Len(history) :
          /\ ~InvalidInput(history[i].request)
          /\ history[i].response.scenario = history[i].request.scenario
          /\ history[i].response.projection_months
                = history[i].request.projection_months
    /\ \A scenario \in ScenarioIds :
          pc = "idle" /\ InvalidInput(payload @@ [scenario |-> scenario]) =>
              ENABLED Reject

\* A request is rejected for its horizon of 121 months.
C13_Witness ==
    /\ pc = "rejected"
    /\ request.projection_months = 121
    /\ request.scenario = "baseline"

FiveScenarios ==
    {"baseline", "increased_savings", "aggressive_savings", "job_loss",
     "emi_prepayment"}

\* C14: each of the five scenario ids has an entry of the table with the
\* income, needs and wants multipliers and a description; the engine of a
\* request is constructed with the entry of its scenario; the scenario
\* listing holds exactly the five ids, each with its description, and
\* names baseline as the default.
C14_ScenarioTableTotal ==
    /\ ScenarioType = FiveScenarios
    /\ DOMAIN SCENARIO_MODIFIERS = FiveScenarios
    /\ \A s \in FiveScenarios :
          DOMAIN SCENARIO_MODIFIERS[s]
              = {"income_multiplier", "needs_multiplier", "wants_multiplier",
                 "description"}
    /\ DOMAIN list_scenarios.scenarios = FiveScenarios
    /\ \A s \in FiveScenarios :
          list_scenarios.scenarios[s] = SCENARIO_MODIFIERS[s].description
    /\ list_scenarios.default = "baseline"
    /\ pc = "idle" => ENABLED Submit
    /\ Serving =>
          /\ request.scenario \in FiveScenarios
          /\ engine.scenario = request.scenario
          /\ engine.modifiers = SCENARIO_MODIFIERS[request.scenario]

\* Every scenario has an engine that finished its run.
C14_Witness ==
    /\ pc = "done"
    /\ request.scenario = "emi_prepayment"
    /\ engine.modifiers.wants_multiplier = 85
    /\ Len(engine.snapshots) = MaxMonths

\* A monthly baseline after n annual adjustments at the given rate.
RECURSIVE Adjusted(_, _, _)
Adjusted(x, rate, n) ==
    IF n = 0 THEN x ELSE FMul(Adjusted(x, rate, n - 1), 10000 + rate, 10000)

\* C15: the baselines of income, needs and wants are adjusted once after
\* each month whose number is a multiple of 12, after the snapshot of that
\* month: snapshot k shows the request's baselines adjusted (k - 1) \div 12
\* times, and after m months the engine's baselines have been adjusted
\* m \div 12 times.
C15_AnnualAdjustmentTiming ==
    Serving =>
        LET cs == request.current_state
            g == engine.assumptions.income_growth_rate
            f == engine.assumptions.inflation_rate
            mo == engine.modifiers
        IN  /\ engine.monthly_income
                  = Adjusted(cs.monthly_income, g, month_num \div 12)
            /\ engine.monthly_needs
                  = Adjusted(cs.monthly_expenses.needs, f, month_num \div 12)
            /\ engine.monthly_wants
                  = Adjusted(cs.monthly_expenses.wants, f, month_num \div 12)
            /\ \A k \in 1..Len(Snapshots) :
                  LET n == (k - 1) \div 12
                  IN  /\ Snapshots[k].income
                            = round_currency(
                                  FMul(Adjusted(cs.monthly_income, g, n),
                                       mo.income_multiplier, 100))
                      /\ Snapshots[k].expenses.needs
                            = round_currency(
                                  FMul(Adjusted(cs.monthly_expenses.needs, f, n),
                                       mo.needs_multiplier, 100))
                      /\ Snapshots[k].expenses.wants
                            = round_currency(
                                  FMul(Adjusted(cs.monthly_expenses.wants, f, n),
                                       mo.wants_multiplier, 100))

\* A run of 25 months: months 1 to 12 show one income, months 13 to 24 a
\* higher one and month 25 a still higher one; the same for the needs.
C15_Witness ==
    /\ Len(Snapshots) = 25
    /\ Snapshots[12].income = Snapshots[1].income
    /\ Snapshots[13].income > Snapshots[12].income
    /\ Snapshots[24].income = Snapshots[13].income
    /\ Snapshots[25].income > Snapshots[24].income
    /\ Snapshots[12].expenses.needs = Snapshots[1].expenses.needs
    /\ Snapshots[13].expenses.needs > Snapshots[12].expenses.needs
    /\ Snapshots[25].expenses.needs > Snapshots[24].expenses.needs

\* The engine is about to simulate the month month_num'.
MonthStep == pc = "running" /\ month_num' = month_num + 1

\* C16: in each month savings_flow is the income less the needs, the wants
\* and the payments of the obligations still running, each after its
\* scenario multiplier, and the new savings balance is
\* max(0, balance + savings_flow + balance * rate / 12), the return being
\* taken on the balance before the month; the snapshot reports the flow
\* and the new balance rounded to the cent.
C16_SavingsStep ==
    [][ MonthStep =>
          LET income == FMul(engine.monthly_income,
                             engine.modifiers.income_multiplier, 100)
              needs == FMul(engine.monthly_needs,
                            engine.modifiers.needs_multiplier, 100)
              wants == FMul(engine.monthly_wants,
                            engine.modifiers.wants_multiplier, 100)
              payments == SumDue(request.emis, Len(request.emis), month_num')
              savings_flow == income - (needs + wants + payments)
              balance == engine.current_savings
              savings_return ==
                  FMul(balance, engine.assumptions.savings_return_rate, 120000)
          IN  /\ engine'.current_savings
                    = Max(0, balance + savings_flow + savings_return)
              /\ engine'.snapshots[month_num'].savings_flow
                    = round_currency(savings_flow)
              /\ engine'.snapshots[month_num'].cumulative_savings
                    = round_currency(engine'.current_savings) ]_vars

\* A month with a balance, a positive flow and a return: the balance grows
\* by more than the flow, and by less than the flow with a return on the
\* balance after the flow would give.
C16_Witness ==
    /\ Serving
    /\ engine.assumptions.savings_return_rate = 700
    /\ \E i \in 2..Len(Snapshots) :
          /\ Snapshots[i].savings_flow > 100 * Cent
          /\ Snapshots[i].expenses.emis > 0
          /\ Snapshots[i].cumulative_savings
                > Snapshots[i - 1].cumulative_savings + Snapshots[i].savings_flow
                    + Cent

\* C17: in each month the new debt is max(0, debt - 40% of the payments of
\* the obligations still running in that month); in a month without such
\* a payment the debt is unchanged; the snapshot reports the new debt
\* rounded to the cent.
C17_DebtStep ==
    [][ MonthStep =>
          LET payments == SumDue(request.emis, Len(request.emis), month_num')
          IN  /\ engine'.current_debt
                    = Max(0, engine.current_debt - FMul(payments, 40, 100))
              /\ payments = 0 => engine'.current_debt = engine.current_debt
              /\ engine'.snapshots[month_num'].debt_remaining
                    = round_currency(engine'.current_debt) ]_vars

\* Every obligation has ended, the debt is still positive and the last
\* month, without a payment, left it as it was.
C17_Witness ==
    /\ Serving
    /\ Len(engine.emis) > 0
    /\ \A i \in 1..Len(engine.emis) : ~engine.emis[i].active
    /\ engine.current_debt > 0
    /\ Len(Snapshots) >= 2
    /\ Snapshots[1].debt_remaining < round_currency(request.current_state.debt)
    /\ Snapshots[Len(Snapshots)].expenses.emis = 0
    /\ Snapshots[Len(Snapshots)].debt_remaining
          = Snapshots[Len(Snapshots) - 1].debt_remaining

\* The flow of the month the engine is about to simulate: income less
\* needs, wants and the payments due, after the scenario multipliers.
StepFlow ==
    FMul(engine.monthly_income, engine.modifiers.income_multiplier, 100)
    - ( FMul(engine.monthly_needs, engine.modifiers.needs_multiplier, 100)
        + FMul(engine.monthly_wants, engine.modifiers.wants_multiplier, 100)
        + SumDue(request.emis, Len(request.emis), month_num + 1) )

\* What goal i still lacks before the month.
Shortfall(i) ==
    IF engine.goals[i].achieved THEN 0
    ELSE engine.goals[i].target - engine.goals[i].current

\* What goal i receives in the month.
Received(i) == engine'.goals[i].current - engine.goals[i].current

RECURSIVE SumShortfall(_)
SumShortfall(n) == IF n = 0 THEN 0 ELSE SumShortfall(n - 1) + Shortfall(n)

RECURSIVE SumReceived(_)
SumReceived(n) == IF n = 0 THEN 0 ELSE SumReceived(n - 1) + Received(n)

\* C18: in each month the goals receive in total
\* min(0.5 * max(0, savings_flow), sum of the shortfalls of the goals not
\* yet achieved), no goal more than its shortfall; a month whose flow is
\* not positive changes no goal's current and no achieved flag.
C18_GoalAllocationAmount ==
    [][ MonthStep =>
          LET n == Len(engine.goals)
          IN  /\ Len(engine'.goals) = n
              /\ SumReceived(n)
                    = Min(FMul(Max(0, StepFlow), 50, 100), SumShortfall(n))
              /\ \A i \in 1..n : Received(i) >= 0 /\ Received(i) <= Shortfall(i)
              /\ StepFlow <= 0 =>
                    /\ engine'.goals = engine.goals
                    /\ engine'.goals_achieved = engine.goals_achieved ]_vars

\* A month in which one goal receives the rest of its shortfall and
\* another goal a part of its own.
C18_Witness ==
    \E i \in 2..Len(Snapshots) :
        \E j, k \in 1..Len(Snapshots[i].goal_progress) :
            LET before == Snapshots[i - 1].goal_progress
                after == Snapshots[i].goal_progress
            IN  /\ j # k
                /\ ~before[j].achieved /\ after[j].achieved
                /\ after[k].current > before[k].current
                /\ ~after[k].achieved
                /\ Snapshots[i].savings_flow > 0

\* Goal j is funded before goal i: a lower priority number, or the same
\* number and an earlier place in the input.
Precedes(j, i) ==
    \/ engine.goals[j].priority < engine.goals[i].priority
    \/ engine.goals[j].priority = engine.goals[i].priority /\ j < i

C20_AchievedIffFundedReported ==
    /\ Serving =>
          \A j \in 1..Len(engine.goals) :
              engine.goals[j].achieved
                  <=> engine.goals[j].current >= engine.goals[j].target
    /\ \A i \in 1..Len(Snapshots) :
          \A j \in 1..Len(Snapshots[i].goal_progress) :
              Snapshots[i].goal_progress[j].achieved
                  <=> Snapshots[i].goal_progress[j].current
                          >= Snapshots[i].goal_progress[j].target

\* The names of the goals whose flag turns true in the month.
NewlyAchieved ==
    { engine.goals[j].name :
        j \in { k \in 1..Len(engine.goals) :
                  engine'.goals[k].achieved /\ ~engine.goals[k].achieved } }

\* C20 (amended): at construction and after every month a goal's achieved
\* flag is true if and only if the engine's unrounded current is at least
\* the target; a snapshot reports that flag next to the current rounded to
\* the cent; the flag turns true in the month in which the unrounded
\* current first reaches the target, the name is appended to
\* goals_achieved in that month, and no name is recorded twice.
C20_AchievedIffFunded ==
    /\ [](Serving =>
            /\ \A j \in 1..Len(engine.goals) :
                  engine.goals[j].achieved
                      <=> engine.goals[j].current >= engine.goals[j].target
            /\ \A a, b \in 1..Len(engine.goals_achieved) :
                  engine.goals_achieved[a] = engine.goals_achieved[b] => a = b)
    /\ [][ MonthStep =>
            /\ \A j \in 1..Len(engine.goals) :
                  LET reported == engine'.snapshots[month_num'].goal_progress[j]
                  IN  /\ reported.achieved = engine'.goals[j].achieved
                      /\ reported.current
                            = round_currency(engine'.goals[j].current)
                      /\ (engine'.goals[j].achieved /\ ~engine.goals[j].achieved)
                            <=> /\ engine.goals[j].current < engine.goals[j].target
                                /\ engine'.goals[j].current
                                      >= engine.goals[j].target
            /\ Len(engine'.goals_achieved)
                  = Len(engine.goals_achieved) + Cardinality(NewlyAchieved)
            /\ SubSeq(engine'.goals_achieved, 1, Len(engine.goals_achieved))
                  = engine.goals_achieved
            /\ { engine'.goals_achieved[a] :
                    a \in (Len(engine.goals_achieved) + 1)
                              ..Len(engine'.goals_achieved) }
                  = NewlyAchieved ]_vars

\* A goal is half a cent short of its target of 7.88: the snapshot reports
\* its current as 7.88 and achieved as false; a month later it is
\* achieved and recorded, while the goal that was achieved at construction
\* is not recorded.
C20_Witness ==
    /\ Serving
    /\ Len(Snapshots) >= 2
    /\ \E j, d \in 1..Len(engine.goals) :
          /\ Snapshots[1].goal_progress[j].current
                = Snapshots[1].goal_progress[j].target
          /\ ~Snapshots[1].goal_progress[j].achieved
          /\ Snapshots[2].goal_progress[j].achieved
          /\ \E a \in 1..Len(engine.goals_achieved) :
                engine.goals_achieved[a] = engine.goals[j].name
          /\ request.goals[d].current >= request.goals[d].target
          /\ \A a \in 1..Len(engine.goals_achieved) :
                engine.goals_achieved[a] # engine.goals[d].name

RECURSIVE SumActive(_)
\* The monthly amounts of the obligations that are active before the month.
SumActive(n) ==
    IF n = 0 THEN 0
    ELSE SumActive(n - 1)
         + (IF engine.emis[n].active THEN engine.emis[n].monthly_amount ELSE 0)

\* C21: after construction and after every month each obligation is
\* active if and only if its remaining_months is positive, and
\* remaining_months is never negative; a month takes exactly 1 from the
\* remaining_months of each active obligation and counts its amount once,
\* and leaves an inactive obligation as it is, without counting it.
C21_ObligationState ==
    /\ [](Serving =>
            \A i \in 1..Len(engine.emis) :
                /\ engine.emis[i].active <=> engine.emis[i].remaining_months > 0
                /\ engine.emis[i].remaining_months >= 0)
    /\ [][ MonthStep =>
            /\ Len(engine'.emis) = Len(engine.emis)
            /\ \A i \in 1..Len(engine.emis) :
                  /\ engine.emis[i].active =>
                        engine'.emis[i].remaining_months
                            = engine.emis[i].remaining_months - 1
                  /\ ~engine.emis[i].active => engine'.emis[i] = engine.emis[i]
                  /\ engine'.emis[i].monthly_amount = engine.emis[i].monthly_amount
            /\ engine'.snapshots[month_num'].expenses.emis
                  = round_currency(SumActive(Len(engine.emis))) ]_vars

\* One obligation has ended, after as many months as it had left, while
\* another one is still running.
C21_Witness ==
    /\ Serving
    /\ \E i, j \in 1..Len(engine.emis) :
          /\ ~engine.emis[i].active
          /\ engine.emis[i].remaining_months = 0
          /\ month_num = request.emis[i].remaining_months
          /\ engine.emis[j].active
          /\ engine.emis[j].remaining_months
                = request.emis[j].remaining_months - month_num

RECURSIVE SumPositiveFlows(_)
\* The sum of the positive savings_flow values of snapshots 1..n.
SumPositiveFlows(n) ==
    IF n = 0 THEN 0
    ELSE SumPositiveFlows(n - 1)
         + (IF Snapshots[n].savings_flow > 0 THEN Snapshots[n].savings_flow ELSE 0)

\* C22 (as stated): the summary's total_savings_added is the sum of the
\* strictly positive savings_flow values of the run's snapshots.
C22_TotalSavingsAddedExact ==
    pc = "done" =>
        LastResponse.summary.total_savings_added
            = SumPositiveFlows(Len(Snapshots))

\* C22 (amended): the engine adds each month's unrounded savings_flow to
\* its total when that flow is strictly positive, and nothing otherwise
\* (no return is added); the summary's total_savings_added is that total
\* rounded to the cent, which is within one cent per simulated month of
\* the sum of the positive savings_flow values the snapshots report.
C22_TotalSavingsAddedRounded ==
    /\ [](pc = "running" /\ month_num = 0 => engine.total_savings_added = 0)
    /\ [][ MonthStep =>
            engine'.total_savings_added
                = engine.total_savings_added
                    + (IF StepFlow > 0 THEN StepFlow ELSE 0) ]_vars
    /\ [](pc = "done" =>
            /\ LastResponse.summary.total_savings_added
                  = round_currency(engine.total_savings_added)
            /\ Abs(LastResponse.summary.total_savings_added
                     - SumPositiveFlows(Len(Snapshots)))
                  <= Len(Snapshots) * Cent)

\* A run with months of positive and of negative flow and a return on the
\* savings, whose total differs from the sum of the reported flows.
C22_Witness ==
    /\ pc = "done"
    /\ engine.assumptions.savings_return_rate > 0
    /\ engine.current_savings > 0
    /\ \E i, j \in 1..Len(Snapshots) :
          Snapshots[i].savings_flow > 0 /\ Snapshots[j].savings_flow < 0
    /\ LastResponse.summary.total_savings_added > 0
    /\ LastResponse.summary.total_savings_added
          # SumPositiveFlows(Len(Snapshots))

\* C23 (as stated, to the cent): the summary's total_debt_reduced is the
\* debt movement of the run, the initial debt less final_debt, and so
\* never exceeds the initial debt.
C23_TotalDebtReducedIsMovement ==
    pc = "done" =>
        /\ Abs(LastResponse.summary.total_debt_reduced
                 - (request.current_state.debt - LastResponse.summary.final_debt))
              <= Cent
        /\ LastResponse.summary.total_debt_reduced
              <= round_currency(request.current_state.debt)

\* The names in the summary's two goal lists.
AchievedNames ==
    { LastResponse.summary.goals_achieved[a] :
        a \in 1..Len(LastResponse.summary.goals_achieved) }

AtRiskNames ==
    { LastResponse.summary.goals_at_risk[a].name :
        a \in 1..Len(LastResponse.summary.goals_at_risk) }

RunAlone(s) ==
    simulate(CompareRequest(payload.current_state, payload.emis, payload.goals,
                            payload.projection_months, s),
             Clock[today])

\* C25: in a comparison whose runs are interleaved month by month in any
\* order, the caller's current state, obligations and goals stay as they
\* were passed, every finished run has returned the snapshots and the
\* summary it returns when executed alone, and the comparison returned is
\* the one of the sequential loop.
C25_RunIsolation ==
    runs # NoRuns =>
        /\ heap[CallerState] = payload.current_state
        /\ heap[CallerEmis] = payload.emis
        /\ heap[CallerGoals] = payload.goals
        /\ \A s \in ScenariosCompared :
              runs[s].pc = "done" => runs[s].response = RunAlone(s)
        /\ comparison # NoComparison =>
              comparison = compare_scenarios(payload.current_state, payload.emis,
                                             payload.goals,
                                             payload.projection_months,
                                             Clock[today])

\* A run has finished while another one, begun before the first one
\* ended, is in the middle of its months, having paid off an obligation
\* and funded a goal.
C25_Witness ==
    /\ runs # NoRuns
    /\ \E s, t \in ScenariosCompared :
          /\ runs[s].pc = "done"
          /\ Len(runs[s].response.monthly_snapshots) >= 2
          /\ runs[t].pc = "running"
          /\ runs[t].month_num >= 1
          /\ runs[t].month_num < runs[t].request.projection_months
          /\ \E i \in 1..Len(heap[runs[t].engine.emis]) :
                heap[runs[t].engine.emis][i].remaining_months
                    < payload.emis[i].remaining_months
          /\ \E j \in 1..Len(heap[runs[t].engine.goals]) :
                heap[runs[t].engine.goals][j].current > payload.goals[j].current

\* C26: a month's step appends exactly one snapshot, the one of that
\* month, and leaves every earlier snapshot, its goal_progress included,
\* as it was emitted; the annual adjustment that may follow in the same
\* iteration and the building of the response leave the sequence alone,
\* and the response returns it as it stands.
C26_SnapshotsAppendOnly ==
    [][pc = "running" =>
         IF MonthStep
         THEN /\ Len(engine'.snapshots) = Len(engine.snapshots) + 1
              /\ SubSeq(engine'.snapshots, 1, Len(engine.snapshots))
                    = engine.snapshots
              /\ engine'.snapshots[Len(engine'.snapshots)].month = month_num'
         ELSE /\ engine'.snapshots = engine.snapshots
              /\ pc' = "done" =>
                    history'[Len(history')].response.monthly_snapshots
                        = engine.snapshots]_vars

\* Thirteen months have been simulated, one annual adjustment among them;
\* since the first snapshot a goal has been funded and an obligation has
\* run out, and the first snapshot still shows that month.
C26_Witness ==
    /\ pc = "done"
    /\ Len(engine.snapshots) > 12
    /\ engine.snapshots[1].month = 1
    /\ engine.snapshots[13].income # engine.snapshots[1].income
    /\ \E j \in 1..Len(engine.goals) :
          /\ engine.snapshots[1].goal_progress[j].current
                < engine.snapshots[13].goal_progress[j].current
          /\ LastResponse.monthly_snapshots[1].goal_progress[j].current
                = round_currency(request.goals[j].current)
    /\ \E i \in 1..Len(engine.emis) : ~engine.emis[i].active

\* C27: in a month in which the goals receive money, the savings still
\* grow by the month's whole flow (and the return on the old balance), the
\* whole flow is counted in total_savings_added, the assets are unchanged,
\* the debt moves only by the principal paid, and the snapshot's net worth
\* is savings + assets - debt with nothing taken off for the goals.
C27_GoalFundingNotDeducted ==
    [][ (MonthStep /\ SumReceived(Len(engine.goals)) > 0) =>
          LET allocated == SumReceived(Len(engine.goals))
              savings_return ==
                  FMul(engine.current_savings,
                       engine.assumptions.savings_return_rate, 120000)
              principal_paid ==
                  FMul(SumDue(request.emis, Len(request.emis), month_num'),
                       40, 100)
              snapshot == engine'.snapshots[Len(engine'.snapshots)]
          IN  /\ allocated <= StepFlow
              /\ engine'.current_savings
                    = engine.current_savings + StepFlow + savings_return
              /\ engine'.total_savings_added
                    = engine.total_savings_added + StepFlow
              /\ engine'.current_assets = engine.current_assets
              /\ engine'.current_debt
                    = Max(0, engine.current_debt - principal_paid)
              /\ snapshot.savings_flow = round_currency(StepFlow)
              /\ snapshot.networth
                    = round_currency(engine'.current_savings
                                       + engine'.current_assets
                                       - engine'.current_debt) ]_vars

\* A month in which a goal is funded and the reported savings rise by the
\* whole reported flow at least.
C27_Witness ==
    \E i \in 2..Len(Snapshots) :
        /\ Snapshots[i].savings_flow > 0
        /\ \E j \in 1..Len(Snapshots[i].goal_progress) :
              Snapshots[i].goal_progress[j].current
                  >= Snapshots[i - 1].goal_progress[j].current
                       + Snapshots[i].savings_flow \div 4
        /\ Snapshots[i].cumulative_savings
              >= Snapshots[i - 1].cumulative_savings
                   + Snapshots[i].savings_flow - Cent
        /\ Snapshots[i].networth - Snapshots[i - 1].networth
              >= Snapshots[i].savings_flow - Cent

\* The final net worth of the request being served, had it been sent
\* under scenario s.
FinalNetworthUnder(s) ==
    simulate([request EXCEPT !.scenario = s], start_date).summary.final_networth

\* C28: for one and the same input the final net worth under
\* aggressive_savings is not below the one under increased_savings, which
\* is not below the one under baseline, both in a comparison and in
\* simulations with the caller's own assumptions; the comparison's
\* best_networth is the final net worth of aggressive_savings.
C28_SavingsScenariosMonotone ==
    /\ comparison # NoComparison =>
          /\ comparison.scenarios["aggressive_savings"].final_networth
                >= comparison.scenarios["increased_savings"].final_networth
          /\ comparison.scenarios["increased_savings"].final_networth
                >= comparison.scenarios["baseline"].final_networth
          /\ comparison.best_networth
                = comparison.scenarios["aggressive_savings"].final_networth
    /\ pc = "done" =>
          /\ FinalNetworthUnder(request.scenario)
                = LastResponse.summary.final_networth
          /\ FinalNetworthUnder("aggressive_savings")
                >= FinalNetworthUnder("increased_savings")
          /\ FinalNetworthUnder("increased_savings")
                >= FinalNetworthUnder("baseline")

\* A comparison in which increased_savings ends above baseline, next to a
\* simulation of the same input under aggressive_savings, with assumptions
\* of the caller's, that ends above what it would under baseline.
C28_Witness ==
    /\ comparison # NoComparison
    /\ comparison.scenarios["increased_savings"].final_networth
          > comparison.scenarios["baseline"].final_networth
    /\ pc = "done"
    /\ request.scenario = "aggressive_savings"
    /\ request.assumptions # None
    /\ Len(LastResponse.monthly_snapshots) > 12
    /\ LastResponse.summary.final_networth > FinalNetworthUnder("baseline")

\* The debt path of a response: per month the obligations paid and the
\* debt left, and the summary's two debt figures.
DebtPath(response) ==
    [ emis |-> [k \in 1..Len(response.monthly_snapshots) |->
                   response.monthly_snapshots[k].expenses.emis],
      debt_remaining |-> [k \in 1..Len(response.monthly_snapshots) |->
                             response.monthly_snapshots[k].debt_remaining],
      total_debt_reduced |-> response.summary.total_debt_reduced,
      final_debt |-> response.summary.final_debt ]

C30_MultipliersDoNotCompound ==
    [][ MonthStep =>
          LET snapshot == engine'.snapshots[Len(engine'.snapshots)]
          IN  /\ snapshot.income
                    = round_currency(FMul(engine.monthly_income,
                                          engine.modifiers.income_multiplier, 100))
              /\ snapshot.expenses.needs
                    = round_currency(FMul(engine.monthly_needs,
                                          engine.modifiers.needs_multiplier, 100))
              /\ snapshot.expenses.wants
                    = round_currency(FMul(engine.monthly_wants,
                                          engine.modifiers.wants_multiplier, 100))
              /\ engine'.modifiers = engine.modifiers
              /\ month_num' % 12 # 0 =>
                    /\ engine'.monthly_income = engine.monthly_income
                    /\ engine'.monthly_needs = engine.monthly_needs
                    /\ engine'.monthly_wants = engine.monthly_wants
              /\ month_num % 12 # 0 =>
                    /\ snapshot.income = engine.snapshots[month_num].income
                    /\ snapshot.expenses.needs
                          = engine.snapshots[month_num].expenses.needs
                    /\ snapshot.expenses.wants
                          = engine.snapshots[month_num].expenses.wants ]_vars

\* The second year under a scenario that cuts the wants: snapshots 13 to
\* 23 all report the same wants, below the engine's baseline of that year
\* and above what a second cut would leave.
C30_Witness ==
    /\ pc = "running"
    /\ month_num = 23
    /\ engine.modifiers.wants_multiplier < 100
    /\ engine.monthly_wants > request.current_state.monthly_expenses.wants
    /\ \A k \in 13..23 :
          /\ Snapshots[k].expenses.wants = Snapshots[13].expenses.wants
          /\ Snapshots[k].expenses.wants < engine.monthly_wants
          /\ Snapshots[k].expenses.wants
                > FMul(FMul(engine.monthly_wants,
                            engine.modifiers.wants_multiplier, 100),
                       engine.modifiers.wants_multiplier, 100) + Cent

====
